---- MODULE Spec2Model ----
(***************************************************************************)
(* Model of the LinkedIn people-search scraper: the query encoder          *)
(* (buildSearchUrl and its helpers), the login state machine               *)
(* (loginToLinkedIn, saveCookies, loadCookies), the search / profile       *)
(* pipelines (searchPeople, scrapeProfile, extractProfileLinks) and the    *)
(* tool-call handler.  JavaScript strings are modelled as sequences of     *)
(* one-character strings so that includes / split / startsWith / regex     *)
(* tests and URL percent-encoding are computed, not assumed.               *)
(***************************************************************************)
EXTENDS Integers, Sequences, FiniteSets, TLC

(***************************************************************************)
(* Bounds                                                                  *)
(***************************************************************************)
MaxRows == 2
MaxCookie == 2
MaxMatches == 2

(***************************************************************************)
(* JavaScript values                                                       *)
(***************************************************************************)
\* `undefined` / `null`: a one-element sequence that no string can equal
\* (every character of a string is a one-character string).
Undefined == <<"undefined">>

\* JS truthiness of a string-or-undefined value
Truthy(v) == v # Undefined /\ v # <<>>

Lower == <<"a","b","c","d","e","f","g","h","i","j","k","l","m","n","o","p","q","r","s","t","u","v","w","x","y","z">>
Upper == <<"A","B","C","D","E","F","G","H","I","J","K","L","M","N","O","P","Q","R","S","T","U","V","W","X","Y","Z">>
Digits == {"0","1","2","3","4","5","6","7","8","9"}

\* a case-sensitive comparison in place of toUpperCase
toUpperCaseOmitted(s) == s

\* String.prototype.toUpperCase, character by character
upperChar(c) ==
  IF \E i \in 1..Len(Lower) : Lower[i] = c
  THEN Upper[CHOOSE i \in 1..Len(Lower) : Lower[i] = c]
  ELSE c

toUpperCase(s) == [i \in 1..Len(s) |-> upperChar(s[i])]

\* String.prototype.includes
includes(s, sub) ==
  \E i \in 0..(Len(s) - Len(sub)) : SubSeq(s, i + 1, i + Len(sub)) = sub

\* String.prototype.startsWith
startsWith(s, pre) ==
  Len(s) >= Len(pre) /\ SubSeq(s, 1, Len(pre)) = pre

\* s.split(sep)[0] for a one-character separator
splitFirst(s, sep) ==
  IF \E i \in 1..Len(s) : s[i] = sep
  THEN SubSeq(s, 1, (CHOOSE i \in 1..Len(s) : s[i] = sep /\ \A j \in 1..(i - 1) : s[j] # sep) - 1)
  ELSE s

\* an unanchored /\d+/ in place of /^\d+$/
isDigitsUnanchored(s) == \E i \in 1..Len(s) : s[i] \in Digits

\* /^\d+$/.test(s)
isDigits(s) == Len(s) > 0 /\ \A i \in 1..Len(s) : s[i] \in Digits

\* String.prototype.trim (space is the only whitespace in the alphabet)
RECURSIVE trimStart(_)
trimStart(s) == IF s # <<>> /\ Head(s) = " " THEN trimStart(Tail(s)) ELSE s

RECURSIVE trimEnd(_)
trimEnd(s) == IF s # <<>> /\ s[Len(s)] = " " THEN trimEnd(SubSeq(s, 1, Len(s) - 1)) ELSE s

trim(s) == trimEnd(trimStart(s))

(***************************************************************************)
(* URLSearchParams                                                         *)
(***************************************************************************)
\* characters the application/x-www-form-urlencoded serializer leaves alone
Unreserved == {Lower[i] : i \in 1..Len(Lower)} \cup {Upper[i] : i \in 1..Len(Upper)}
              \cup Digits \cup {"*", "-", ".", "_"}

\* the serializer's byte encoding: space becomes "+", everything else
\* outside the unreserved set becomes %HH
encodeChar(c) ==
  IF c \in Unreserved THEN <<c>>
  ELSE CASE c = " "  -> <<"+">>
         [] c = "\"" -> <<"%","2","2">>
         [] c = "%"  -> <<"%","2","5">>
         [] c = "&"  -> <<"%","2","6">>
         [] c = "+"  -> <<"%","2","B">>
         [] c = ","  -> <<"%","2","C">>
         [] c = "/"  -> <<"%","2","F">>
         [] c = ":"  -> <<"%","3","A">>
         [] c = "="  -> <<"%","3","D">>
         [] c = "?"  -> <<"%","3","F">>
         [] c = "["  -> <<"%","5","B">>
         [] c = "]"  -> <<"%","5","D">>

RECURSIVE encodeString(_)
encodeString(s) ==
  IF s = <<>> THEN <<>> ELSE encodeChar(Head(s)) \o encodeString(Tail(s))

\* a URLSearchParams object is its list of <<name, value>> pairs
newURLSearchParams == <<>>

paramsAppend(params, name, value) == Append(params, <<name, value>>)

\* params.get(name): the first value with that name, or null
paramsGet(params, name) ==
  IF \E i \in 1..Len(params) : params[i][1] = name
  THEN params[CHOOSE i \in 1..Len(params) :
                params[i][1] = name /\ \A j \in 1..(i - 1) : params[j][1] # name][2]
  ELSE Undefined

\* params.set(name, value): overwrite the first pair with that name and
\* drop the others, or append when there is none
RECURSIVE dropNamed(_, _)
dropNamed(params, name) ==
  IF params = <<>> THEN <<>>
  ELSE IF Head(params)[1] = name THEN dropNamed(Tail(params), name)
       ELSE <<Head(params)>> \o dropNamed(Tail(params), name)

paramsSet(params, name, value) ==
  IF \E i \in 1..Len(params) : params[i][1] = name
  THEN LET k == CHOOSE i \in 1..Len(params) :
                  params[i][1] = name /\ \A j \in 1..(i - 1) : params[j][1] # name
       IN SubSeq(params, 1, k - 1) \o <<<<name, value>>>>
            \o dropNamed(SubSeq(params, k + 1, Len(params)), name)
  ELSE Append(params, <<name, value>>)

\* params.toString()
RECURSIVE paramsToString(_)
paramsToString(params) ==
  IF params = <<>> THEN <<>>
  ELSE encodeString(Head(params)[1]) \o <<"=">> \o encodeString(Head(params)[2])
       \o (IF Tail(params) = <<>> THEN <<>> ELSE <<"&">> \o paramsToString(Tail(params)))

(***************************************************************************)
(* Query encoder                                                           *)
(***************************************************************************)
baseUrl == <<"h","t","t","p","s",":","/","/","w","w","w",".","l","i","n","k","e","d","i","n",".","c","o","m","/","s","e","a","r","c","h","/","r","e","s","u","l","t","s","/","p","e","o","p","l","e","/">>
kKeywords == <<"k","e","y","w","o","r","d","s">>
kOrigin == <<"o","r","i","g","i","n">>
kGeoUrn == <<"g","e","o","U","r","n">>
kNetwork == <<"n","e","t","w","o","r","k">>
FACETED_SEARCH == <<"F","A","C","E","T","E","D","_","S","E","A","R","C","H">>
\* the documentation's example code (Spain) in place of the default
defaultGeoUrnSpain == <<"1","0","5","6","4","6","8","1","3">>
defaultGeoUrn == <<"1","0","4","1","9","5","3","8","3">>

\* `["${x}"]`
listOf(x) == <<"[", "\"">> \o x \o <<"\"", "]">>

\* The encoder's working state: the URLSearchParams under construction and
\* the diagnostics written to the console.
addKeywordsToParams(st, f) ==
  IF Truthy(f.keywords)
  THEN [st EXCEPT !.params = paramsAppend(st.params, kKeywords, f.keywords)]
  ELSE st

addLocationToParams(st, f) ==
  LET location == IF Truthy(f.location) THEN f.location ELSE defaultGeoUrn
  IN IF isDigits(location)
     THEN [st EXCEPT !.params =
             paramsAppend(paramsAppend(st.params, kOrigin, FACETED_SEARCH),
                          kGeoUrn, listOf(location))]
     ELSE LET existingKeywords == paramsGet(st.params, kKeywords)
              locationKeywords == IF Truthy(existingKeywords)
                                  THEN existingKeywords \o <<" ">> \o location
                                  ELSE location
          IN [st EXCEPT !.params = paramsSet(st.params, kKeywords, locationKeywords)]

\* the origin marker appended before the network value is validated
addNetworkToParamsEager(st, f) ==
  IF Truthy(f.network)
  THEN LET network == toUpperCase(f.network)
           st1 == [st EXCEPT !.params = paramsAppend(st.params, kOrigin, FACETED_SEARCH)]
       IN IF network \in {<<"F">>, <<"S">>, <<"O">>}
          THEN [st1 EXCEPT !.params = paramsAppend(st1.params, kNetwork, listOf(network))]
          ELSE [st1 EXCEPT !.log = st.log \cup {"invalid network filter"}]
  ELSE st

addNetworkToParams(st, f) ==
  IF Truthy(f.network)
  THEN LET network == toUpperCase(f.network)
       IN IF network \in {<<"F">>, <<"S">>, <<"O">>}
          THEN [st EXCEPT !.params =
                  paramsAppend(paramsAppend(st.params, kOrigin, FACETED_SEARCH),
                               kNetwork, listOf(network))]
          ELSE [st EXCEPT !.log = st.log \cup {"invalid network filter"}]
  ELSE st

buildSearchUrl(f) ==
  LET st0 == [params |-> newURLSearchParams, log |-> {}]
      st3 == addNetworkToParams(addLocationToParams(addKeywordsToParams(st0, f), f), f)
  IN [url |-> baseUrl \o <<"?">> \o paramsToString(st3.params), log |-> st3.log]

(***************************************************************************)
(* Record extraction from one search-result element                        *)
(***************************************************************************)
\* An element of the page is described by what each candidate selector of
\* each field chain yields on it: Undefined when the query matches nothing
\* (or the attribute / text is null), Throws when the query raises, and the
\* attribute or text otherwise.
Throws == <<"throws">>

\* the "no record" result of extractSingleProfile
Null == [null |-> TRUE]

inPath == <<"/","i","n","/">>
http == <<"h","t","t","p">>
linkedinOrigin == <<"h","t","t","p","s",":","/","/","w","w","w",".","l","i","n","k","e","d","i","n",".","c","o","m">>
profilePrefix == <<"P","r","o","f","i","l","e"," ">>
decimal == <<"1","2","3","4","5","6","7","8","9">>

cleanProfileUrl(url) ==
  LET cleanUrl == splitFirst(url, "?")
  IN IF ~startsWith(cleanUrl, http) THEN linkedinOrigin \o cleanUrl ELSE cleanUrl

\* the loop over linkSelectors, from candidate i on
RECURSIVE extractProfileUrlFrom(_, _)
extractProfileUrlFrom(links, i) ==
  IF i > Len(links) THEN Undefined
  ELSE IF links[i] = Throws THEN Throws
  ELSE IF links[i] # Undefined /\ includes(links[i], inPath) THEN cleanProfileUrl(links[i])
  ELSE extractProfileUrlFrom(links, i + 1)

\* a chain that consults its first candidate only
extractProfileUrlFirstOnly(el) ==
  IF el.links[1] \notin {Undefined, Throws} /\ includes(el.links[1], inPath)
  THEN cleanProfileUrl(el.links[1])
  ELSE Undefined

extractProfileUrl(el) == extractProfileUrlFrom(el.links, 1)

\* the loop shared by the name and headline chains: the first candidate
\* whose trimmed text is non-empty
RECURSIVE firstText(_, _)
firstText(texts, i) ==
  IF i > Len(texts) THEN Undefined
  ELSE IF texts[i] = Throws THEN Throws
  ELSE IF texts[i] # Undefined /\ trim(texts[i]) # <<>> THEN trim(texts[i])
  ELSE firstText(texts, i + 1)

\* index is the 0-based position of the element
extractProfileName(el, index) ==
  LET name == firstText(el.names, 1)
  IN IF name = Undefined THEN profilePrefix \o <<decimal[index + 1]>> ELSE name

extractProfileHeadline(el) == firstText(el.headlines, 1)

\* an element without a name treated like an element without a profile URL
extractSingleProfileRequiresName(el, index) ==
  LET profileUrl == extractProfileUrl(el)
  IN IF profileUrl = Throws THEN Null
     ELSE IF ~Truthy(profileUrl) THEN Null
     ELSE LET name == firstText(el.names, 1)
              headline == extractProfileHeadline(el)
          IN IF name = Throws \/ headline = Throws \/ name = Undefined THEN Null
             ELSE [name |-> name, profileUrl |-> profileUrl,
                   headline |-> IF Truthy(headline) THEN headline ELSE Undefined]

\* a record built with a placeholder URL when no profile URL is found
extractSingleProfilePlaceholder(el, index) ==
  LET profileUrl == extractProfileUrl(el)
      name == extractProfileName(el, index)
      headline == extractProfileHeadline(el)
  IN IF profileUrl = Throws \/ name = Throws \/ headline = Throws THEN Null
     ELSE [name |-> name,
           profileUrl |-> IF Truthy(profileUrl) THEN profileUrl ELSE <<>>,
           headline |-> IF Truthy(headline) THEN headline ELSE Undefined]

extractSingleProfile(el, index) ==
  LET profileUrl == extractProfileUrl(el)
  IN IF profileUrl = Throws THEN Null
     ELSE IF ~Truthy(profileUrl) THEN Null
     ELSE LET name == extractProfileName(el, index)
              headline == extractProfileHeadline(el)
          IN IF name = Throws \/ headline = Throws THEN Null
             ELSE [name |-> name, profileUrl |-> profileUrl,
                   headline |-> IF Truthy(headline) THEN headline ELSE Undefined]

(***************************************************************************)
(* Container location and row enumeration                                  *)
(***************************************************************************)
NumSearchSelectors == 4
NumProfileSelectors == 4

\* A page is described by the set of searchSelectors whose element becomes
\* visible within the wait, and by the elements each profileSelector matches.
RECURSIVE getProfileElementsFrom(_, _)
getProfileElementsFrom(rows, i) ==
  IF i > Len(rows) THEN <<>>
  ELSE IF Len(rows[i]) > 0 THEN rows[i]
  ELSE getProfileElementsFrom(rows, i + 1)

getProfileElements(dom) == getProfileElementsFrom(dom.rows, 1)

\* the loop over profileElements: push every non-null record
RECURSIVE collectProfiles(_, _)
collectProfiles(els, i) ==
  IF i > Len(els) THEN <<>>
  ELSE LET profile == extractSingleProfile(els[i], i - 1)
       IN (IF profile # Null THEN <<profile>> ELSE <<>>) \o collectProfiles(els, i + 1)

extractProfileLinks(dom) ==
  LET foundResults == dom.containers # {}
      profileElements == getProfileElements(dom)
      log1 == IF foundResults THEN {} ELSE {"no search results container"}
  IN IF Len(profileElements) = 0
     THEN [profiles |-> <<>>, log |-> log1 \cup {"no profile elements"}]
     ELSE [profiles |-> collectProfiles(profileElements, 1),
           log |-> log1 \cup {"no profile url" : i \in {j \in 1..Len(profileElements) :
                                   extractSingleProfile(profileElements[j], j - 1) = Null}}]

(***************************************************************************)
(* Full-profile extraction (scrapeProfile's extractProfileData)            *)
(***************************************************************************)
\* A profile page is described by what each candidate selector of each field
\* chain yields on it (as for a search-result element), by whether reading
\* the page title raises, and, per list section, by whether the section query
\* raises and which elements each section selector matches.  For the date
\* and credential fields of a certification a candidate's value stands for
\* the capture of the field's pattern on the candidate's text (Undefined when
\* the pattern does not match).
Unknown == <<"U","n","k","n","o","w","n">>
UnknownTitle == <<"U","n","k","n","o","w","n"," ","T","i","t","l","e">>
UnknownCompany == <<"U","n","k","n","o","w","n"," ","C","o","m","p","a","n","y">>
UnknownDuration == <<"U","n","k","n","o","w","n"," ","D","u","r","a","t","i","o","n">>

\* a field chain whose candidates are each wrapped in try / catch: a query
\* that raises is logged and the loop goes on
RECURSIVE firstTextCaught(_, _)
firstTextCaught(texts, i) ==
  IF i > Len(texts) THEN Undefined
  ELSE IF texts[i] # Throws /\ texts[i] # Undefined /\ trim(texts[i]) # <<>>
  THEN trim(texts[i])
  ELSE firstTextCaught(texts, i + 1)

extractProfileNameFromPage(p) ==
  LET name == firstTextCaught(p.names, 1)
  IN IF name = Undefined THEN Unknown ELSE name

extractProfileHeadlineFromPage(p) == firstTextCaught(p.headlines, 1)

\* a placeholder in place of a location that was not found
extractProfileLocationPlaceholder(p) ==
  LET location == firstTextCaught(p.locations, 1)
  IN IF location = Undefined THEN Unknown ELSE location

extractProfileLocation(p) == firstTextCaught(p.locations, 1)

\* one try / catch around the whole chain: a query that raises ends it
extractProfileAbout(p) ==
  LET about == firstText(p.abouts, 1)
  IN IF about = Throws THEN Undefined ELSE about

\* the elements of the first section selector that matches any
sectionElements(section) == getProfileElementsFrom(section.rows, 1)

RECURSIVE experienceItems(_, _)
experienceItems(els, i) ==
  IF i > Len(els) THEN <<>>
  ELSE LET title == firstTextCaught(els[i].titles, 1)
           company == firstTextCaught(els[i].companies, 1)
           duration == firstTextCaught(els[i].durations, 1)
           description == firstTextCaught(els[i].descriptions, 1)
       IN (IF Truthy(title) \/ Truthy(company)
           THEN <<[title |-> IF Truthy(title) THEN title ELSE UnknownTitle,
                   company |-> IF Truthy(company) THEN company ELSE UnknownCompany,
                   duration |-> IF Truthy(duration) THEN duration ELSE UnknownDuration,
                   description |-> description]>>
           ELSE <<>>) \o experienceItems(els, i + 1)

extractProfileExperience(p) ==
  IF p.experience.throws THEN <<>> ELSE experienceItems(sectionElements(p.experience), 1)

RECURSIVE educationItems(_, _)
educationItems(els, i) ==
  IF i > Len(els) THEN <<>>
  ELSE LET school == firstTextCaught(els[i].schools, 1)
           degree == firstTextCaught(els[i].degrees, 1)
           years == firstTextCaught(els[i].years, 1)
       IN (IF Truthy(school)
           THEN <<[school |-> school, degree |-> degree, years |-> years]>>
           ELSE <<>>) \o educationItems(els, i + 1)

extractProfileEducation(p) ==
  IF p.education.throws THEN <<>> ELSE educationItems(sectionElements(p.education), 1)

RECURSIVE extractSkillNamesFromElements(_, _)
extractSkillNamesFromElements(els, i) ==
  IF i > Len(els) THEN <<>>
  ELSE LET skillName == firstTextCaught(els[i].names, 1)
       IN (IF Truthy(skillName) THEN <<skillName>> ELSE <<>>)
          \o extractSkillNamesFromElements(els, i + 1)

extractProfileSkills(p) ==
  IF p.skills.throws THEN <<>>
  ELSE extractSkillNamesFromElements(sectionElements(p.skills), 1)

RECURSIVE licenseItems(_, _)
licenseItems(els, i) ==
  IF i > Len(els) THEN <<>>
  ELSE LET name == firstTextCaught(els[i].names, 1)
           issuer == firstTextCaught(els[i].issuers, 1)
           issueDate == firstTextCaught(els[i].issueDates, 1)
           expirationDate == firstTextCaught(els[i].expirationDates, 1)
           credentialId == firstTextCaught(els[i].credentialIds, 1)
       IN (IF Truthy(name) /\ Truthy(issuer)
           THEN <<[name |-> name, issuer |-> issuer, issueDate |-> issueDate,
                   expirationDate |-> expirationDate, credentialId |-> credentialId]>>
           ELSE <<>>) \o licenseItems(els, i + 1)

extractProfileLicenses(p) ==
  IF p.licenses.throws THEN <<>> ELSE licenseItems(sectionElements(p.licenses), 1)

\* extractProfileData: the record of the page, or the basic record when a
\* step outside the field extractors raises
extractProfileData(p, url) ==
  IF p.titleThrows
  THEN [name |-> Unknown, profileUrl |-> url]
  ELSE [name |-> extractProfileNameFromPage(p),
        headline |-> extractProfileHeadlineFromPage(p),
        location |-> extractProfileLocation(p),
        about |-> extractProfileAbout(p),
        experience |-> extractProfileExperience(p),
        education |-> extractProfileEducation(p),
        skills |-> extractProfileSkills(p),
        licenses |-> extractProfileLicenses(p),
        profileUrl |-> url]

(***************************************************************************)
(* Session manager                                                         *)
(***************************************************************************)
loginUrl == <<"h","t","t","p","s",":","/","/","w","w","w",".","l","i","n","k","e","d","i","n",".","c","o","m","/","l","o","g","i","n">>
feedUrl == <<"h","t","t","p","s",":","/","/","w","w","w",".","l","i","n","k","e","d","i","n",".","c","o","m","/","f","e","e","d","/">>
ownProfileUrl == <<"h","t","t","p","s",":","/","/","w","w","w",".","l","i","n","k","e","d","i","n",".","c","o","m","/","i","n","/","m","e","/">>
challengeUrl == <<"h","t","t","p","s",":","/","/","w","w","w",".","l","i","n","k","e","d","i","n",".","c","o","m","/","c","h","e","c","k","p","o","i","n","t","/","c","h","a","l","l","e","n","g","e","/">>
loginSubmitUrl == <<"h","t","t","p","s",":","/","/","w","w","w",".","l","i","n","k","e","d","i","n",".","c","o","m","/","c","h","e","c","k","p","o","i","n","t","/","l","g","/","l","o","g","i","n","-","s","u","b","m","i","t">>
feedPath == <<"/","f","e","e","d","/">>
challengePath == <<"/","c","h","a","l","l","e","n","g","e","/">>

\* where the browser can be after page.goto(login) and the 3 s wait
CurrentUrls == {loginUrl, feedUrl}
\* where the browser can be 5 s after the form was submitted
AfterLoginUrls == {feedUrl, ownProfileUrl, challengeUrl, loginSubmitUrl, loginUrl}

\* the persisted cookie snapshot is absent, or holds a cookie jar, or is a
\* file that cannot be restored: unreadable, not JSON, or a cookie list that
\* the browsing context rejects
NoFile == 0 - 1
Malformed == 0 - 2
CookieJars == 0..MaxCookie

\* the snapshot file left as it was although the save is reported
saveCookiesNoWrite(jar, file, writeOk) ==
  [snapshot |-> file,
   log |-> IF writeOk THEN {"session cookies saved"} ELSE {"error saving cookies"}]

\* saveCookies: write the jar of the browsing context to the snapshot file;
\* an error while reading the jar or writing the file is logged and swallowed
saveCookies(jar, file, writeOk) ==
  IF writeOk THEN [snapshot |-> jar, log |-> {"session cookies saved"}]
  ELSE [snapshot |-> file, log |-> {"error saving cookies"}]

\* loadCookies: add the snapshot's cookies to the fresh browsing context; an
\* error while reading, parsing or adding them is logged and swallowed
loadCookies(jar, file) ==
  IF file \in CookieJars THEN file ELSE jar

\* the error diagnostics of loadCookies
loadCookiesLog(file) ==
  IF file = Malformed THEN {"error loading cookies"} ELSE {}

\* the challenge page waited out and the login then reported as successful
loginToLinkedInAfterChallenge(gotoOk, currentUrl, formOk, afterLoginUrl) ==
  IF ~gotoOk
  THEN [success |-> FALSE, submitted |-> FALSE, save |-> FALSE, log |-> {"error during login"}]
  ELSE IF includes(currentUrl, feedPath) \/ includes(currentUrl, inPath)
  THEN [success |-> TRUE, submitted |-> FALSE, save |-> FALSE, log |-> {"already logged in"}]
  ELSE IF ~formOk
  THEN [success |-> FALSE, submitted |-> FALSE, save |-> FALSE, log |-> {"error during login"}]
  ELSE IF includes(afterLoginUrl, challengePath)
  THEN [success |-> TRUE, submitted |-> TRUE, save |-> TRUE,
        log |-> {"security challenge", "login successful"}]
  ELSE IF includes(afterLoginUrl, feedPath) \/ includes(afterLoginUrl, inPath)
  THEN [success |-> TRUE, submitted |-> TRUE, save |-> TRUE, log |-> {"login successful"}]
  ELSE [success |-> FALSE, submitted |-> TRUE, save |-> FALSE, log |-> {"login failed"}]

\* loginToLinkedIn, as a function of what the browser does:
\*   gotoOk        - page.goto(login) completed within its timeout
\*   currentUrl    - page.url() after it
\*   formOk        - the form fields became visible and fill / click worked
\*   afterLoginUrl - page.url() 5 s after the click
\* Returns the boolean result, whether credentials were submitted, whether
\* saveCookies is called, and the console diagnostics.
loginToLinkedIn(gotoOk, currentUrl, formOk, afterLoginUrl) ==
  IF ~gotoOk
  THEN [success |-> FALSE, submitted |-> FALSE, save |-> FALSE, log |-> {"error during login"}]
  ELSE IF includes(currentUrl, feedPath) \/ includes(currentUrl, inPath)
  THEN [success |-> TRUE, submitted |-> FALSE, save |-> FALSE, log |-> {"already logged in"}]
  ELSE IF ~formOk
  THEN [success |-> FALSE, submitted |-> FALSE, save |-> FALSE, log |-> {"error during login"}]
  ELSE IF includes(afterLoginUrl, challengePath)
  THEN [success |-> FALSE, submitted |-> TRUE, save |-> FALSE,
        log |-> {"security challenge", "error during login"}]
  ELSE IF includes(afterLoginUrl, feedPath) \/ includes(afterLoginUrl, inPath)
  THEN [success |-> TRUE, submitted |-> TRUE, save |-> TRUE, log |-> {"login successful"}]
  ELSE [success |-> FALSE, submitted |-> TRUE, save |-> FALSE, log |-> {"login failed"}]

\* the value of the last page.url() call of loginToLinkedIn: none when
\* page.goto(login) failed, currentUrl when the function ended before the
\* form was submitted, afterLoginUrl otherwise
lastUrlRead(gotoOk, currentUrl, formOk, afterLoginUrl) ==
  IF ~gotoOk THEN Undefined
  ELSE IF includes(currentUrl, feedPath) \/ includes(currentUrl, inPath) \/ ~formOk
  THEN currentUrl
  ELSE afterLoginUrl

(***************************************************************************)
(* Inputs                                                                  *)
(***************************************************************************)
softwareEngineer == <<"s","o","f","t","w","a","r","e"," ","e","n","g","i","n","e","e","r">>
sanFrancisco == <<"S","a","n"," ","F","r","a","n","c","i","s","c","o">>
spainGeoUrn == <<"1","0","5","6","4","6","8","1","3">>
someProfileUrl == <<"h","t","t","p","s",":","/","/","w","w","w",".","l","i","n","k","e","d","i","n",".","c","o","m","/","i","n","/","a">>

KeywordsInputs == {Undefined, <<>>, softwareEngineer, <<"c","+","+">>}
LocationInputs == {Undefined, <<>>, spainGeoUrn, sanFrancisco, <<"1","2","a">>, <<"7">>}
NetworkInputs == {Undefined, <<>>, <<"F">>, <<"S">>, <<"O">>, <<"s">>, <<"f","i","r","s","t">>, <<"X">>}
ProfileUrlInputs == {Undefined, <<>>, someProfileUrl}

FiltersInputs ==
  [keywords : KeywordsInputs, location : LocationInputs, network : NetworkInputs]
\* the filters the pipeline is driven with
SearchInputs ==
  [keywords : {Undefined, softwareEngineer}, location : {Undefined, sanFrancisco},
   network : {Undefined, <<"F">>, <<"X">>}]
NoFilters == [keywords |-> Undefined, location |-> Undefined, network |-> Undefined]

Tools == {"search-linkedin-people", "scrape-linkedin-profile", "unknown-tool"}

none4 == <<Undefined, Undefined, Undefined, Undefined>>
none3 == <<Undefined, Undefined, Undefined>>

\* sample result elements
Elements == {
  \* relative link with a tracking parameter, padded name, headline
  [links |-> <<<<"/","i","n","/","a","?","t","=","1">>, Undefined, Undefined, Undefined>>,
   names |-> <<<<" ","A","n","n"," ">>, Undefined, Undefined, Undefined>>,
   headlines |-> <<<<"D","e","v">>, Undefined, Undefined>>],
  \* nothing matches
  [links |-> none4, names |-> none4, headlines |-> none3],
  \* only the third link candidate matches, absolute link, no name,
  \* the only headline candidate that matches is blank
  [links |-> <<Undefined, Undefined, <<"h","t","t","p","s",":","/","/","x","/","i","n","/","b">>, Undefined>>,
   names |-> none4,
   headlines |-> <<<<" ">>, Undefined, Undefined>>],
  \* a link that is not a profile link, and a link that holds /in/ in its
  \* query string only
  [links |-> <<<<"/","x">>, <<"/","x","?","r","=","/","i","n","/","a">>, Undefined, Undefined>>,
   names |-> <<<<"A","n","n">>, Undefined, Undefined, Undefined>>,
   headlines |-> none3],
  \* the first link query raises
  [links |-> <<Throws, <<"/","i","n","/","a">>, Undefined, Undefined>>,
   names |-> <<<<"A","n","n">>, Undefined, Undefined, Undefined>>,
   headlines |-> none3],
  \* profile link found, the first name query raises
  [links |-> <<<<"/","i","n","/","a">>, Undefined, Undefined, Undefined>>,
   names |-> <<Throws, <<"A","n","n">>, Undefined, Undefined>>,
   headlines |-> none3]
}

RowLists == UNION {[1..n -> Elements] : n \in 1..MaxRows}

\* sample pages: which container selectors become visible, and which single
\* row selector (if any) matches which elements
Doms ==
  {[containers |-> c, rows |-> [i \in 1..NumProfileSelectors |-> <<>>]] :
      c \in {{}, {1}, {3}}}
  \cup
  {[containers |-> ck.c,
    rows |-> [i \in 1..NumProfileSelectors |-> IF i = ck.k THEN els ELSE <<>>]] :
      ck \in {[c |-> {}, k |-> 3], [c |-> {3}, k |-> 1]}, els \in RowLists}

\* sample profile pages
noSection == [throws |-> FALSE, rows |-> <<<<>>, <<>>>>]
emptyProfilePage ==
  [titleThrows |-> FALSE, names |-> <<Undefined, Undefined>>,
   headlines |-> <<Undefined, Undefined>>, locations |-> <<Undefined, Undefined>>,
   abouts |-> <<Undefined, Undefined>>, experience |-> noSection,
   education |-> noSection, skills |-> noSection, licenses |-> noSection]

ProfilePages == {
  \* nothing matches
  emptyProfilePage,
  \* reading the page title raises
  [emptyProfilePage EXCEPT !.titleThrows = TRUE, !.names = <<<<"A","n","n">>, Undefined>>],
  \* a complete profile whose lists hold elements with and without their
  \* identifying fields
  [titleThrows |-> FALSE,
   names |-> <<Undefined, <<" ","A","n","n"," ">>>>,
   headlines |-> <<<<"D","e","v">>, Undefined>>,
   locations |-> <<<<" ">>, <<"O","s","l","o">>>>,
   abouts |-> <<<<"H","i">>, Undefined>>,
   experience |-> [throws |-> FALSE, rows |-> << <<>>,
      << [titles |-> <<<<"D","e","v">>>>, companies |-> <<Undefined>>,
          durations |-> <<Undefined>>, descriptions |-> <<Undefined>>],
         [titles |-> <<Undefined>>, companies |-> <<<<" ">>>>,
          durations |-> <<<<"2"," ","y">>>>, descriptions |-> <<<<"H","i">>>>],
         [titles |-> <<Throws>>, companies |-> <<<<"X">>>>,
          durations |-> <<<<"2"," ","y">>>>, descriptions |-> <<Undefined>>] >> >>],
   education |-> [throws |-> FALSE, rows |-> <<
      << [schools |-> <<<<"M","I","T">>>>, degrees |-> <<Undefined>>, years |-> <<Undefined>>],
         [schools |-> <<Undefined>>, degrees |-> <<<<"B","S","c">>>>, years |-> <<<<"2"," ","y">>>>] >>, <<>> >>],
   skills |-> [throws |-> FALSE, rows |-> <<
      << [names |-> <<<<" ">>, <<"G","o">>>>], [names |-> <<Undefined, Undefined>>] >>, <<>> >>],
   licenses |-> [throws |-> FALSE, rows |-> <<
      << [names |-> <<<<"A","W","S">>>>, issuers |-> <<<<"X">>>>, issueDates |-> <<Undefined>>,
          expirationDates |-> <<Undefined>>, credentialIds |-> <<Undefined>>],
         [names |-> <<<<"A","W","S">>>>, issuers |-> <<Undefined>>, issueDates |-> <<<<"2"," ","y">>>>,
          expirationDates |-> <<Undefined>>, credentialIds |-> <<Undefined>>] >>, <<>> >>]],
  \* queries raise: the first name candidate, the about chain, two sections
  [emptyProfilePage EXCEPT !.names = <<Throws, <<"A","n","n">>>>,
                           !.abouts = <<Throws, <<"H","i">>>>,
                           !.experience = [throws |-> TRUE, rows |-> <<<<>>, <<>>>>],
                           !.licenses = [throws |-> TRUE, rows |-> <<<<>>, <<>>>>]]
}

(***************************************************************************)
(* State                                                                   *)
(***************************************************************************)
VARIABLES
  scraper,        \* the global scraper: "null", "ready" (page open), "nopage"
  pc,             \* where the current tool call is
  tool,           \* request.params.name of the current call
  filters,        \* the SearchFilters object of the current call
  profileUrl,     \* args.profileUrl of the current call
  target,         \* searchUrl / profileUrl: the URL the operation navigates to
  navs,           \* the page.goto calls of the current call, in order
  loginCalls,     \* number of loginToLinkedIn calls of the current call
  loginRequired,  \* the login-wall test of the current call
  loginSuccess,   \* "none", "true", "false": what loginToLinkedIn returned
  page,           \* what the page shows: "blank", "wall", "content", or
                  \* "unloaded" after a navigation that timed out
  cookies,        \* the cookie jar of the browsing context
  snapshot,       \* the persisted cookie snapshot
  log,            \* console diagnostics of the current call
  profileElements,\* the result elements extractProfileLinks enumerated
  pageContent,    \* the page content the extraction of the current call read
  observedUrl,    \* the URL page.url() returned last to the login of the current
                  \* call, until the page is sent elsewhere
  result          \* the response of the current call

vars == <<scraper, pc, tool, filters, profileUrl, target, navs, loginCalls,
          loginRequired, loginSuccess, page, cookies, snapshot, log,
          profileElements, pageContent, observedUrl, result>>

\* no page content has been read
NoContent == [kind |-> "none"]

NoResult == [kind |-> "none"]
McpError(code, message) == [kind |-> "error", code |-> code, message |-> message]

Init ==
  /\ scraper = "null"
  /\ pc = "idle"
  /\ tool = "none"
  /\ filters = NoFilters
  /\ profileUrl = Undefined
  /\ target = Undefined
  /\ navs = <<>>
  /\ loginCalls = 0
  /\ loginRequired = FALSE
  /\ loginSuccess = "none"
  /\ page = "blank"
  /\ cookies = 0
  /\ snapshot \in {NoFile, Malformed} \cup CookieJars
  /\ log = {}
  /\ profileElements = <<>>
  /\ pageContent = NoContent
  /\ observedUrl = Undefined
  /\ result = NoResult

(***************************************************************************)
(* Tool-call handler and pipelines                                         *)
(***************************************************************************)
\* the scraper initialised before the arguments of a profile fetch are validated
CallToolValidatesLate ==
  /\ pc = "idle"
  /\ \E t \in Tools :
       \E f \in (IF t = "search-linkedin-people" THEN SearchInputs ELSE {NoFilters}),
          pu \in (IF t = "scrape-linkedin-profile" THEN ProfileUrlInputs ELSE {Undefined}) :
         /\ tool' = t
         /\ filters' = f
         /\ profileUrl' = pu
         /\ IF t = "unknown-tool"
            THEN /\ pc' = "done"
                 /\ result' = McpError("MethodNotFound", "unknown tool")
                 /\ scraper' = scraper
            ELSE IF t = "scrape-linkedin-profile" /\ ~Truthy(pu)
            THEN /\ pc' = "done"
                 /\ result' = McpError("InvalidParams", "profileUrl is required")
                 /\ scraper' = IF scraper = "null" THEN "ready" ELSE scraper
            ELSE /\ pc' = "init"
                 /\ result' = NoResult
                 /\ scraper' = scraper
  /\ UNCHANGED <<target, navs, loginCalls, loginRequired, loginSuccess,
                 page, cookies, snapshot, log, profileElements, pageContent, observedUrl>>

\* The handler up to its first await: read the arguments, validate them.
CallTool ==
  /\ pc = "idle"
  /\ \E t \in Tools :
       \E f \in (IF t = "search-linkedin-people" THEN SearchInputs ELSE {NoFilters}),
          pu \in (IF t = "scrape-linkedin-profile" THEN ProfileUrlInputs ELSE {Undefined}) :
         /\ tool' = t
         /\ filters' = f
         /\ profileUrl' = pu
         /\ IF t = "unknown-tool"
            THEN /\ pc' = "done"
                 /\ result' = McpError("MethodNotFound", "unknown tool")
            ELSE IF t = "scrape-linkedin-profile" /\ ~Truthy(pu)
            THEN /\ pc' = "done"
                 /\ result' = McpError("InvalidParams", "profileUrl is required")
            ELSE /\ pc' = "init"
                 /\ result' = NoResult
  /\ UNCHANGED <<scraper, target, navs, loginCalls, loginRequired, loginSuccess,
                 page, cookies, snapshot, log, profileElements, pageContent, observedUrl>>

\* The handler returns (or throws) its response: the call and its locals end.
Return ==
  /\ pc = "done"
  /\ pc' = "idle"
  /\ tool' = "none"
  /\ filters' = NoFilters
  /\ profileUrl' = Undefined
  /\ target' = Undefined
  /\ navs' = <<>>
  /\ loginCalls' = 0
  /\ loginRequired' = FALSE
  /\ loginSuccess' = "none"
  /\ log' = {}
  /\ profileElements' = <<>>
  /\ pageContent' = NoContent
  /\ observedUrl' = Undefined
  /\ result' = NoResult
  /\ UNCHANGED <<scraper, page, cookies, snapshot>>

\* an init that fails when the snapshot cannot be restored
InitializeScraperFailsOnBadSnapshot ==
  /\ pc = "init"
  /\ IF scraper = "null"
     THEN \E outcome \in {"ok", "config error", "launch error"} :
            /\ scraper' = CASE outcome = "ok" -> "ready"
                            [] outcome = "config error" -> "null"
                            [] outcome = "launch error" -> "nopage"
            /\ cookies' = IF outcome = "ok" THEN loadCookies(cookies, snapshot) ELSE cookies
            /\ log' = IF outcome = "ok" THEN log \cup loadCookiesLog(snapshot) ELSE log
            /\ pc' = IF outcome = "ok" /\ snapshot # Malformed THEN "navigate" ELSE "done"
            /\ result' = IF outcome # "ok" THEN McpError("InternalError", outcome)
                         ELSE IF snapshot = Malformed
                         THEN McpError("InternalError", "error loading cookies")
                         ELSE result
     ELSE /\ pc' = "navigate"
          /\ UNCHANGED <<scraper, cookies, log, result>>
  /\ UNCHANGED <<tool, filters, profileUrl, target, navs, loginCalls,
                 loginRequired, loginSuccess, page, snapshot, profileElements,
                 pageContent, observedUrl>>

\* initializeScraper: construct and init the global scraper when there is none
InitializeScraper ==
  /\ pc = "init"
  /\ IF scraper = "null"
     THEN \E outcome \in {"ok", "config error", "launch error"} :
            /\ scraper' = CASE outcome = "ok" -> "ready"
                            [] outcome = "config error" -> "null"
                            [] outcome = "launch error" -> "nopage"
            /\ cookies' = IF outcome = "ok" THEN loadCookies(cookies, snapshot) ELSE cookies
            /\ log' = IF outcome = "ok" THEN log \cup loadCookiesLog(snapshot) ELSE log
            /\ pc' = IF outcome = "ok" THEN "navigate" ELSE "done"
            /\ result' = IF outcome = "ok" THEN result
                         ELSE McpError("InternalError", outcome)
     ELSE /\ pc' = "navigate"
          /\ UNCHANGED <<scraper, cookies, log, result>>
  /\ UNCHANGED <<tool, filters, profileUrl, target, navs, loginCalls,
                 loginRequired, loginSuccess, page, snapshot, profileElements,
                 pageContent, observedUrl>>

\* a page load that timed out treated like an element that was not found
NavigateIgnoresTimeout ==
  /\ pc = "navigate"
  /\ IF scraper = "nopage"
     THEN /\ pc' = "done"
          /\ result' = McpError("InternalError", "Browser not initialized")
          /\ UNCHANGED <<target, navs, page, log>>
     ELSE LET enc == buildSearchUrl(filters)
              url == IF tool = "search-linkedin-people" THEN enc.url ELSE profileUrl
          IN /\ target' = url
             /\ log' = IF tool = "search-linkedin-people" THEN log \cup enc.log ELSE log
             /\ navs' = Append(navs, url)
             /\ \E loaded \in {"timeout", "wall", "content"} :
                  /\ pc' = "check"
                  /\ result' = result
                  /\ page' = IF loaded = "timeout" THEN "unloaded" ELSE loaded
  /\ UNCHANGED <<scraper, tool, filters, profileUrl, loginCalls, loginRequired,
                 loginSuccess, cookies, snapshot, profileElements, pageContent, observedUrl>>

\* searchPeople / scrapeProfile up to the login-wall test: the page guard,
\* the URL, the first page.goto
Navigate ==
  /\ pc = "navigate"
  /\ IF scraper = "nopage"
     THEN /\ pc' = "done"
          /\ result' = McpError("InternalError", "Browser not initialized")
          /\ UNCHANGED <<target, navs, page, log>>
     ELSE LET enc == buildSearchUrl(filters)
              url == IF tool = "search-linkedin-people" THEN enc.url ELSE profileUrl
          IN /\ target' = url
             /\ log' = IF tool = "search-linkedin-people" THEN log \cup enc.log ELSE log
             /\ navs' = Append(navs, url)
             /\ \E loaded \in {"timeout", "wall", "content"} :
                  IF loaded = "timeout"
                  THEN /\ pc' = "done"
                       /\ result' = McpError("InternalError", "navigation timeout")
                       /\ page' = "unloaded"
                  ELSE /\ pc' = "check"
                       /\ result' = result
                       /\ page' = loaded
  /\ UNCHANGED <<scraper, tool, filters, profileUrl, loginCalls, loginRequired,
                 loginSuccess, cookies, snapshot, profileElements, pageContent, observedUrl>>

\* the snapshot refreshed from the session whenever no login wall is shown
CheckLoginSavesCookies ==
  /\ pc = "check"
  /\ loginRequired' = (page = "wall")
  /\ pc' = IF page = "wall" THEN "login" ELSE "extract"
  /\ snapshot' = IF page = "wall" THEN snapshot ELSE cookies
  /\ UNCHANGED <<scraper, tool, filters, profileUrl, target, navs, loginCalls,
                 loginSuccess, page, cookies, log, profileElements, result, pageContent,
                 observedUrl>>

\* the login-wall test: is input[name="session_key"] visible
CheckLogin ==
  /\ pc = "check"
  /\ loginRequired' = (page = "wall")
  /\ pc' = IF page = "wall" THEN "login" ELSE "extract"
  /\ UNCHANGED <<scraper, tool, filters, profileUrl, target, navs, loginCalls,
                 loginSuccess, page, cookies, snapshot, log, profileElements, result, pageContent,
                 observedUrl>>

\* the call of loginToLinkedIn and the test of its result
Login ==
  /\ pc = "login"
  /\ \E gotoOk \in BOOLEAN, currentUrl \in CurrentUrls, formOk \in BOOLEAN,
        afterLoginUrl \in AfterLoginUrls, jar \in CookieJars, writeOk \in BOOLEAN :
       LET r == loginToLinkedIn(gotoOk, currentUrl, formOk, afterLoginUrl)
           newJar == IF r.submitted THEN jar ELSE cookies
           sv == IF r.save THEN saveCookies(newJar, snapshot, writeOk)
                 ELSE [snapshot |-> snapshot, log |-> {}]
       IN /\ loginCalls' = loginCalls + 1
          /\ navs' = Append(navs, loginUrl)
          /\ cookies' = newJar
          /\ snapshot' = sv.snapshot
          /\ log' = log \cup r.log \cup sv.log
          /\ loginSuccess' = IF r.success THEN "true" ELSE "false"
          /\ page' = IF r.success THEN "content" ELSE "wall"
          /\ observedUrl' = lastUrlRead(gotoOk, currentUrl, formOk, afterLoginUrl)
          /\ IF r.success
             THEN /\ pc' = "renavigate"
                  /\ result' = result
             ELSE /\ pc' = "done"
                  /\ result' = McpError("InternalError", "Failed to log in to LinkedIn")
  /\ UNCHANGED <<scraper, tool, filters, profileUrl, target, loginRequired,
                 profileElements, pageContent>>

\* extraction started right after the login, without the second page.goto
ReNavigateSkipped ==
  /\ pc = "renavigate"
  /\ pc' = "extract"
  /\ UNCHANGED <<scraper, tool, filters, profileUrl, target, navs, loginCalls,
                 loginRequired, loginSuccess, page, cookies, snapshot, log,
                 profileElements, result, pageContent, observedUrl>>

\* the second page.goto, to the same URL, after a successful login
ReNavigate ==
  /\ pc = "renavigate"
  /\ navs' = Append(navs, target)
  /\ observedUrl' = Undefined
  /\ \E loaded \in {"timeout", "wall", "content"} :
       IF loaded = "timeout"
       THEN /\ pc' = "done"
            /\ result' = McpError("InternalError", "navigation timeout")
            /\ page' = "unloaded"
       ELSE /\ pc' = "extract"
            /\ result' = result
            /\ page' = loaded
  /\ UNCHANGED <<scraper, tool, filters, profileUrl, target, loginCalls,
                 loginRequired, loginSuccess, cookies, snapshot, log, profileElements, pageContent>>

\* an empty row list reported as a failure of the search
ExtractSearchFailsOnEmpty ==
  /\ pc = "extract"
  /\ tool = "search-linkedin-people"
  /\ \E dom \in Doms :
       /\ page = "wall" => (dom.containers = {} /\ getProfileElements(dom) = <<>>)
       /\ LET r == extractProfileLinks(dom)
          IN /\ result' = IF Len(getProfileElements(dom)) = 0
                          THEN McpError("InternalError", "no profile elements")
                          ELSE [kind |-> "success", count |-> Len(r.profiles),
                                profiles |-> r.profiles, filters |-> filters]
             /\ log' = log \cup r.log
             /\ profileElements' = getProfileElements(dom)
             /\ pageContent' = dom
  /\ pc' = "done"
  /\ UNCHANGED <<scraper, tool, filters, profileUrl, target, navs, loginCalls,
                 loginRequired, loginSuccess, page, cookies, snapshot, observedUrl>>

\* extractProfileLinks and the handler's success response
ExtractSearch ==
  /\ pc = "extract"
  /\ tool = "search-linkedin-people"
  /\ \E dom \in Doms :
       /\ page = "wall" => (dom.containers = {} /\ getProfileElements(dom) = <<>>)
       /\ LET r == extractProfileLinks(dom)
          IN /\ result' = [kind |-> "success", count |-> Len(r.profiles),
                           profiles |-> r.profiles, filters |-> filters]
             /\ log' = log \cup r.log
             /\ profileElements' = getProfileElements(dom)
             /\ pageContent' = dom
  /\ pc' = "done"
  /\ UNCHANGED <<scraper, tool, filters, profileUrl, target, navs, loginCalls,
                 loginRequired, loginSuccess, page, cookies, snapshot, observedUrl>>

\* an error inside extractProfileData passed on to the caller
ExtractProfileRethrows ==
  /\ pc = "extract"
  /\ tool = "scrape-linkedin-profile"
  /\ \E p \in ProfilePages :
       /\ page = "wall" => (p.titleThrows \/ p = emptyProfilePage)
       /\ result' = IF p.titleThrows
                    THEN McpError("InternalError", "profile extraction failed")
                    ELSE [kind |-> "profile", profile |-> extractProfileData(p, profileUrl)]
       /\ pageContent' = p
  /\ pc' = "done"
  /\ UNCHANGED <<scraper, tool, filters, profileUrl, target, navs, loginCalls,
                 loginRequired, loginSuccess, page, cookies, snapshot, log,
                 profileElements, observedUrl>>

\* extractProfileData and the handler's success response
ExtractProfile ==
  /\ pc = "extract"
  /\ tool = "scrape-linkedin-profile"
  /\ \E p \in ProfilePages :
       /\ page = "wall" => (p.titleThrows \/ p = emptyProfilePage)
       /\ result' = [kind |-> "profile", profile |-> extractProfileData(p, profileUrl)]
       /\ pageContent' = p
  /\ pc' = "done"
  /\ UNCHANGED <<scraper, tool, filters, profileUrl, target, navs, loginCalls,
                 loginRequired, loginSuccess, page, cookies, snapshot, log,
                 profileElements, observedUrl>>

Next ==
  \/ CallTool
  \/ Return
  \/ InitializeScraper
  \/ Navigate
  \/ CheckLogin
  \/ Login
  \/ ReNavigate
  \/ ExtractSearch
  \/ ExtractProfile

Spec == Init /\ [][Next]_vars

TypeOK ==
  /\ scraper \in {"null", "ready", "nopage"}
  /\ pc \in {"idle", "init", "navigate", "check", "login", "renavigate", "extract", "done",
            "encode", "encoded"}
  /\ tool \in Tools \cup {"none"}
  /\ filters \in FiltersInputs
  /\ loginCalls \in 0..1
  /\ loginRequired \in BOOLEAN
  /\ loginSuccess \in {"none", "true", "false"}
  /\ page \in {"blank", "wall", "content", "unloaded"}
  /\ cookies \in CookieJars
  /\ snapshot \in {NoFile, Malformed} \cup CookieJars
  /\ Len(navs) <= 3

(***************************************************************************)
(* The query encoder on its own: every filter object is encoded once       *)
(***************************************************************************)
InitEnc ==
  /\ scraper = "ready"
  /\ pc = "encode"
  /\ tool = "search-linkedin-people"
  /\ filters \in FiltersInputs
  /\ profileUrl = Undefined
  /\ target = Undefined
  /\ navs = <<>>
  /\ loginCalls = 0
  /\ loginRequired = FALSE
  /\ loginSuccess = "none"
  /\ page = "blank"
  /\ cookies = 0
  /\ snapshot = NoFile
  /\ log = {}
  /\ profileElements = <<>>
  /\ pageContent = NoContent
  /\ observedUrl = Undefined
  /\ result = NoResult

\* const searchUrl = this.buildSearchUrl(filters)
Encode ==
  /\ pc = "encode"
  /\ LET enc == buildSearchUrl(filters)
     IN /\ target' = enc.url
        /\ log' = log \cup enc.log
  /\ pc' = "encoded"
  /\ UNCHANGED <<scraper, tool, filters, profileUrl, navs, loginCalls,
                 loginRequired, loginSuccess, page, cookies, snapshot,
                 profileElements, result, pageContent, observedUrl>>

NextEnc == Encode

SpecEnc == InitEnc /\ [][NextEnc]_vars

(***************************************************************************)
(* The selector chains on their own: every sample element is read once     *)
(***************************************************************************)
\* what a link candidate and a text candidate can yield when it matches
ChainLinkValues ==
  {<<"/","i","n","/","a","?","t","=","1">>, <<"h","t","t","p","s",":","/","/","x","/","i","n","/","b">>, <<"/","x">>}
ChainTextValues == {<<" ","A","n","n"," ">>, <<" ">>}

\* the candidate lists of length n in which at most MaxMatches candidates match
ChainLists(values, n) ==
  {l \in [1..n -> values \cup {Undefined}] :
     Cardinality({i \in 1..n : l[i] # Undefined}) <= MaxMatches}

\* elements on which the candidates of one field chain vary
ChainElements ==
  {[links |-> l, names |-> none4, headlines |-> none3] : l \in ChainLists(ChainLinkValues, 4)}
  \cup {[links |-> none4, names |-> l, headlines |-> none3] : l \in ChainLists(ChainTextValues, 4)}
  \cup {[links |-> none4, names |-> none4, headlines |-> l] : l \in ChainLists(ChainTextValues, 3)}

InitChain ==
  /\ scraper = "ready"
  /\ pc = "chain"
  /\ tool = "search-linkedin-people"
  /\ filters = NoFilters
  /\ profileUrl = Undefined
  /\ target = Undefined
  /\ navs = <<>>
  /\ loginCalls = 0
  /\ loginRequired = FALSE
  /\ loginSuccess = "none"
  /\ page = "content"
  /\ cookies = 0
  /\ snapshot = NoFile
  /\ log = {}
  /\ profileElements \in {<<el>> : el \in ChainElements}
  /\ pageContent = NoContent
  /\ observedUrl = Undefined
  /\ result = NoResult

\* the three field chains of extractSingleProfile, each applied to the element
ReadFields ==
  /\ pc = "chain"
  /\ LET el == profileElements[1]
     IN result' = [kind |-> "fields",
                   profileUrl |-> extractProfileUrl(el),
                   name |-> extractProfileName(el, 0),
                   headline |-> extractProfileHeadline(el)]
  /\ pc' = "chained"
  /\ UNCHANGED <<scraper, tool, filters, profileUrl, target, navs, loginCalls,
                 loginRequired, loginSuccess, page, cookies, snapshot, log,
                 profileElements, pageContent, observedUrl>>

NextChain == ReadFields

SpecChain == InitChain /\ [][NextChain]_vars

(***************************************************************************)
(* The command-line variant: one search per process, a login that waits    *)
(* for the operator when a security challenge is shown                     *)
(***************************************************************************)
\* the filters of the command line (without filters the help text is shown)
CliInputs ==
  {[NoFilters EXCEPT !.keywords = softwareEngineer],
   [NoFilters EXCEPT !.keywords = softwareEngineer, !.location = sanFrancisco]}

\* loginToLinkedIn of the command-line variant up to the challenge test:
\* on a challenge page it does not fail but waits for a line on stdin
loginToLinkedInCli(gotoOk, currentUrl, formOk, afterLoginUrl) ==
  IF gotoOk /\ ~(includes(currentUrl, feedPath) \/ includes(currentUrl, inPath))
     /\ formOk /\ includes(afterLoginUrl, challengePath)
  THEN [success |-> FALSE, submitted |-> TRUE, save |-> FALSE, waits |-> TRUE,
        log |-> {"security challenge"}]
  ELSE [waits |-> FALSE] @@ loginToLinkedIn(gotoOk, currentUrl, formOk, afterLoginUrl)

\* the classification of the URL read after the operator's input
afterChallenge(finalUrl) ==
  IF includes(finalUrl, feedPath) \/ includes(finalUrl, inPath)
     \/ ~includes(finalUrl, challengePath)
  THEN [success |-> TRUE, save |-> TRUE, log |-> {"login successful"}]
  ELSE [success |-> FALSE, save |-> FALSE, log |-> {"login failed"}]

InitCli ==
  /\ scraper = "null"
  /\ pc = "init"
  /\ tool = "search-linkedin-people"
  /\ filters \in CliInputs
  /\ profileUrl = Undefined
  /\ target = Undefined
  /\ navs = <<>>
  /\ loginCalls = 0
  /\ loginRequired = FALSE
  /\ loginSuccess = "none"
  /\ page = "blank"
  /\ cookies = 0
  /\ snapshot \in {NoFile} \cup CookieJars
  /\ log = {}
  /\ profileElements = <<>>
  /\ pageContent = NoContent
  /\ observedUrl = Undefined
  /\ result = NoResult

\* the call of loginToLinkedIn up to its return or up to the wait on stdin
LoginCli ==
  /\ pc = "login"
  /\ \E gotoOk \in BOOLEAN, currentUrl \in CurrentUrls, formOk \in BOOLEAN,
        afterLoginUrl \in AfterLoginUrls, jar \in CookieJars, writeOk \in BOOLEAN :
       LET r == loginToLinkedInCli(gotoOk, currentUrl, formOk, afterLoginUrl)
           newJar == IF r.submitted THEN jar ELSE cookies
           sv == IF r.save THEN saveCookies(newJar, snapshot, writeOk)
                 ELSE [snapshot |-> snapshot, log |-> {}]
       IN /\ loginCalls' = loginCalls + 1
          /\ navs' = Append(navs, loginUrl)
          /\ cookies' = newJar
          /\ snapshot' = sv.snapshot
          /\ log' = log \cup r.log \cup sv.log
          /\ observedUrl' = lastUrlRead(gotoOk, currentUrl, formOk, afterLoginUrl)
          /\ IF r.waits
             THEN /\ pc' = "challenge"
                  /\ loginSuccess' = loginSuccess
                  /\ page' = "wall"
                  /\ result' = result
             ELSE /\ loginSuccess' = IF r.success THEN "true" ELSE "false"
                  /\ page' = IF r.success THEN "content" ELSE "wall"
                  /\ IF r.success
                     THEN /\ pc' = "renavigate"
                          /\ result' = result
                     ELSE /\ pc' = "done"
                          /\ result' = McpError("InternalError", "Failed to log in to LinkedIn")
  /\ UNCHANGED <<scraper, tool, filters, profileUrl, target, loginRequired,
                 profileElements, pageContent>>

\* a line arrives on stdin: the login reads the URL again and returns
StdinData ==
  /\ pc = "challenge"
  /\ \E finalUrl \in AfterLoginUrls, jar \in CookieJars, writeOk \in BOOLEAN :
       LET r == afterChallenge(finalUrl)
           sv == IF r.save THEN saveCookies(jar, snapshot, writeOk)
                 ELSE [snapshot |-> snapshot, log |-> {}]
       IN /\ cookies' = jar
          /\ observedUrl' = finalUrl
          /\ snapshot' = sv.snapshot
          /\ log' = log \cup r.log \cup sv.log
          /\ loginSuccess' = IF r.success THEN "true" ELSE "false"
          /\ page' = IF r.success THEN "content" ELSE "wall"
          /\ IF r.success
             THEN /\ pc' = "renavigate"
                  /\ result' = result
             ELSE /\ pc' = "done"
                  /\ result' = McpError("InternalError", "Failed to log in to LinkedIn")
  /\ UNCHANGED <<scraper, tool, filters, profileUrl, target, navs, loginCalls,
                 loginRequired, profileElements, pageContent>>

\* the steps the process takes by itself
CliStep ==
  \/ InitializeScraper
  \/ Navigate
  \/ CheckLogin
  \/ LoginCli
  \/ ReNavigate
  \/ ExtractSearch

NextCli == CliStep \/ StdinData

\* every step of the process is taken when it can be (each wait of the
\* process is bounded); whether a line arrives on stdin is up to the operator
SpecCli == InitCli /\ [][NextCli]_vars /\ WF_vars(CliStep)

\* the server: every step of a call in progress is taken when it can be
LiveSpec == Init /\ [][Next]_vars /\ WF_vars(Next)

(***************************************************************************)
(* Two tool calls in flight                                                *)
(***************************************************************************)
\* The handler is an async function: it gives up control at every await,
\* and the server starts the handler of a request when the request arrives,
\* whether or not the handler of an earlier request has returned.  Here the
\* per-call variables (pc, tool, filters, profileUrl, target, result) are
\* functions of the request; the scraper and its page are shared.  The page
\* is described by the URL it was last sent to and by the request that sent
\* it there; page and session are taken to be logged in.
Requests == {1, 2}

\* the requests that are sent
ConcInputs ==
  {[tool |-> "search-linkedin-people", profileUrl |-> Undefined, filters |-> f] :
      f \in {NoFilters, [NoFilters EXCEPT !.keywords = softwareEngineer]}}
  \cup {[tool |-> "scrape-linkedin-profile", profileUrl |-> someProfileUrl,
         filters |-> NoFilters]}

BlankPage == [url |-> Undefined, by |-> 0]

InitConc ==
  /\ scraper = "null"
  /\ pc = [r \in Requests |-> "idle"]
  /\ tool = [r \in Requests |-> "none"]
  /\ filters = [r \in Requests |-> NoFilters]
  /\ profileUrl = [r \in Requests |-> Undefined]
  /\ target = [r \in Requests |-> Undefined]
  /\ navs = <<>>
  /\ loginCalls = 0
  /\ loginRequired = FALSE
  /\ loginSuccess = "none"
  /\ page = BlankPage
  /\ cookies = 0
  /\ snapshot = NoFile
  /\ log = {}
  /\ profileElements = <<>>
  /\ pageContent = NoContent
  /\ observedUrl = Undefined
  /\ result = [r \in Requests |-> NoResult]

\* the handler of request r starts: its arguments are read
ConcCallTool(r) ==
  /\ pc[r] = "idle"
  /\ \E in \in ConcInputs :
       /\ tool' = [tool EXCEPT ![r] = in.tool]
       /\ filters' = [filters EXCEPT ![r] = in.filters]
       /\ profileUrl' = [profileUrl EXCEPT ![r] = in.profileUrl]
  /\ pc' = [pc EXCEPT ![r] = "init"]
  /\ UNCHANGED <<scraper, target, navs, loginCalls, loginRequired, loginSuccess,
                 page, cookies, snapshot, log, profileElements, pageContent, result, observedUrl>>

\* initializeScraper up to its await: with no global scraper one is
\* constructed and assigned, and init() is started; with a global scraper
\* that scraper is returned
ConcInitializeScraper(r) ==
  /\ pc[r] = "init"
  /\ IF scraper = "null"
     THEN /\ scraper' = "nopage"
          /\ pc' = [pc EXCEPT ![r] = "launching"]
     ELSE /\ scraper' = scraper
          /\ pc' = [pc EXCEPT ![r] = "navigate"]
  /\ UNCHANGED <<tool, filters, profileUrl, target, navs, loginCalls, loginRequired,
                 loginSuccess, page, cookies, snapshot, log, profileElements,
                 pageContent, result, observedUrl>>

\* init() of the scraper that request r constructed completes
ConcInitDone(r) ==
  /\ pc[r] = "launching"
  /\ scraper' = "ready"
  /\ pc' = [pc EXCEPT ![r] = "navigate"]
  /\ UNCHANGED <<tool, filters, profileUrl, target, navs, loginCalls, loginRequired,
                 loginSuccess, page, cookies, snapshot, log, profileElements,
                 pageContent, result, observedUrl>>

\* searchPeople / scrapeProfile of request r: the page guard and page.goto
ConcNavigate(r) ==
  /\ pc[r] = "navigate"
  /\ IF scraper = "nopage"
     THEN /\ pc' = [pc EXCEPT ![r] = "done"]
          /\ result' = [result EXCEPT
                          ![r] = McpError("InternalError", "Browser not initialized")]
          /\ UNCHANGED <<target, page>>
     ELSE LET url == IF tool[r] = "search-linkedin-people"
                     THEN buildSearchUrl(filters[r]).url ELSE profileUrl[r]
          IN /\ target' = [target EXCEPT ![r] = url]
             /\ page' = [url |-> url, by |-> r]
             /\ pc' = [pc EXCEPT ![r] = "extract"]
             /\ result' = result
  /\ UNCHANGED <<scraper, tool, filters, profileUrl, navs, loginCalls, loginRequired,
                 loginSuccess, cookies, snapshot, log, profileElements, pageContent, observedUrl>>

\* extractProfileLinks / extractProfileData of request r read the shared
\* page as it is now; the response is described by the page it was read from
ConcExtract(r) ==
  /\ pc[r] = "extract"
  /\ result' = [result EXCEPT
                  ![r] = [kind |-> IF tool[r] = "search-linkedin-people"
                                   THEN "success" ELSE "profile",
                          readFrom |-> page]]
  /\ pc' = [pc EXCEPT ![r] = "done"]
  /\ UNCHANGED <<scraper, tool, filters, profileUrl, target, navs, loginCalls,
                 loginRequired, loginSuccess, page, cookies, snapshot, log,
                 profileElements, pageContent, observedUrl>>

\* the handler of request r returns its response
ConcReturn(r) ==
  /\ pc[r] = "done"
  /\ pc' = [pc EXCEPT ![r] = "idle"]
  /\ tool' = [tool EXCEPT ![r] = "none"]
  /\ filters' = [filters EXCEPT ![r] = NoFilters]
  /\ profileUrl' = [profileUrl EXCEPT ![r] = Undefined]
  /\ target' = [target EXCEPT ![r] = Undefined]
  /\ result' = [result EXCEPT ![r] = NoResult]
  /\ UNCHANGED <<scraper, navs, loginCalls, loginRequired, loginSuccess, page,
                 cookies, snapshot, log, profileElements, pageContent, observedUrl>>

NextConc ==
  \E r \in Requests :
     \/ ConcCallTool(r)
     \/ ConcInitializeScraper(r)
     \/ ConcInitDone(r)
     \/ ConcNavigate(r)
     \/ ConcExtract(r)
     \/ ConcReturn(r)

SpecConc == InitConc /\ [][NextConc]_vars

(***************************************************************************)
(* Reading a URL back: the query parameters a server sees                  *)
(***************************************************************************)
RECURSIVE splitOn(_, _)
splitOn(s, sep) ==
  IF \E i \in 1..Len(s) : s[i] = sep
  THEN LET k == CHOOSE i \in 1..Len(s) : s[i] = sep /\ \A j \in 1..(i - 1) : s[j] # sep
       IN <<SubSeq(s, 1, k - 1)>> \o splitOn(SubSeq(s, k + 1, Len(s)), sep)
  ELSE <<s>>

Escaped == {" ", "\"", "%", "&", "+", ",", "/", ":", "=", "?", "[", "]"}

RECURSIVE decodeString(_)
decodeString(s) ==
  IF s = <<>> THEN <<>>
  ELSE IF Head(s) = "+" THEN <<" ">> \o decodeString(Tail(s))
  ELSE IF Head(s) = "%" /\ Len(s) >= 3
          /\ \E c \in Escaped \ {" "} : encodeChar(c) = SubSeq(s, 1, 3)
  THEN <<CHOOSE c \in Escaped \ {" "} : encodeChar(c) = SubSeq(s, 1, 3)>>
       \o decodeString(SubSeq(s, 4, Len(s)))
  ELSE <<Head(s)>> \o decodeString(Tail(s))

\* the text after the first "?"
queryOf(url) ==
  IF \E i \in 1..Len(url) : url[i] = "?"
  THEN SubSeq(url, Len(splitFirst(url, "?")) + 2, Len(url))
  ELSE <<>>

\* the decoded <<name, value>> pairs of the query, in order
queryPairs(url) ==
  LET parts == IF queryOf(url) = <<>> THEN <<>> ELSE splitOn(queryOf(url), "&")
  IN [i \in 1..Len(parts) |->
        LET name == splitFirst(parts[i], "=")
        IN <<decodeString(name),
             decodeString(SubSeq(parts[i], Len(name) + 2, Len(parts[i])))>>]

\* the values of the parameters called name, in order
RECURSIVE valuesOf(_, _)
valuesOf(pairs, name) ==
  IF pairs = <<>> THEN <<>>
  ELSE (IF Head(pairs)[1] = name THEN <<Head(pairs)[2]>> ELSE <<>>)
       \o valuesOf(Tail(pairs), name)

param(name) == valuesOf(queryPairs(target), name)

hasOrigin == \E i \in 1..Len(param(kOrigin)) : param(kOrigin)[i] = FACETED_SEARCH

\* a string of one or more decimal digits
PureDigits(s) ==
  /\ s # Undefined
  /\ Len(s) > 0
  /\ \A i \in 1..Len(s) : s[i] \in {"0","1","2","3","4","5","6","7","8","9"}

\* a location was given
HasLocation == filters.location # Undefined /\ filters.location # <<>>
HasKeywords == filters.keywords # Undefined /\ filters.keywords # <<>>

(***************************************************************************)
(* Claims about the query encoder (checked under SpecEnc)                  *)
(***************************************************************************)
\* C1: a pure-digit location yields origin=FACETED_SEARCH and a geoUrn
\* parameter whose value is the one-element list of exactly that digit
\* string; a non-digit location yields no geoUrn parameter and is merged
\* into the single keywords parameter, after the existing keywords and a
\* space, or alone when there are no keywords.
C1_LocationEncoding ==
  (pc = "encoded" /\ HasLocation) =>
     IF PureDigits(filters.location)
     THEN /\ hasOrigin
          /\ param(kGeoUrn) = <<listOf(filters.location)>>
     ELSE /\ param(kGeoUrn) = <<>>
          /\ param(kKeywords) =
               <<IF HasKeywords THEN filters.keywords \o <<" ">> \o filters.location
                 ELSE filters.location>>

\* a non-digit location that contains digits was merged into existing keywords
C1_Witness ==
  /\ pc = "encoded"
  /\ filters.location = <<"1","2","a">>
  /\ filters.keywords = softwareEngineer
  /\ param(kKeywords) = <<softwareEngineer \o <<" ","1","2","a">>>>

\* C2: without a location (absent or empty) the URL carries the fixed
\* default location code 104195383 as its geoUrn value.
C2_DefaultLocation ==
  (pc = "encoded" /\ ~HasLocation) =>
     param(kGeoUrn) = <<listOf(<<"1","0","4","1","9","5","3","8","3">>)>>

\* an empty location string was encoded
C2_Witness ==
  /\ pc = "encoded"
  /\ filters.location = <<>>
  /\ param(kGeoUrn) # <<>>

\* the network codes the encoder accepts, in either letter case
ValidNetworks == {<<"F">>, <<"S">>, <<"O">>, <<"f">>, <<"s">>, <<"o">>}

\* the code a valid network value is sent as
networkCode(n) ==
  CASE n \in {<<"F">>, <<"f">>} -> <<"F">>
    [] n \in {<<"S">>, <<"s">>} -> <<"S">>
    [] n \in {<<"O">>, <<"o">>} -> <<"O">>

\* C3 as stated: every network value outside the valid set yields no network
\* parameter and a diagnostic, and the URL of the same filters without a
\* network value.
C3_Original ==
  (pc = "encoded" /\ filters.network # Undefined /\ filters.network \notin ValidNetworks) =>
     /\ param(kNetwork) = <<>>
     /\ "invalid network filter" \in log
     /\ target = buildSearchUrl([filters EXCEPT !.network = Undefined]).url

\* C3 (amended): every non-empty network value outside the valid set yields
\* no network parameter and a diagnostic, and the URL is the URL of the same
\* filters without a network value; an empty network value is treated as
\* absent, without a diagnostic.
C3_InvalidNetwork ==
  (pc = "encoded" /\ filters.network # Undefined /\ filters.network \notin ValidNetworks) =>
     /\ param(kNetwork) = <<>>
     /\ ("invalid network filter" \in log) = (filters.network # <<>>)
     /\ target = buildSearchUrl([filters EXCEPT !.network = Undefined]).url

\* an invalid network value was encoded with a non-digit location
C3_Witness ==
  /\ pc = "encoded"
  /\ filters.network = <<"f","i","r","s","t">>
  /\ filters.location = sanFrancisco
  /\ "invalid network filter" \in log

\* C4 as stated: the filters {networkDegree: "first"} yield
\* origin=FACETED_SEARCH and a network parameter holding the list of "F".
C4_Original ==
  (pc = "encoded" /\ filters.network = <<"f","i","r","s","t">>) =>
     /\ hasOrigin
     /\ param(kNetwork) = <<listOf(<<"F">>)>>

\* C4 (amended): the network values the encoder accepts are F, S and O in
\* either letter case; for each of them the URL contains
\* origin=FACETED_SEARCH and a network parameter whose value is the
\* one-element list of the upper-case code.
C4_ValidNetwork ==
  (pc = "encoded" /\ filters.network \in ValidNetworks) =>
     /\ hasOrigin
     /\ param(kNetwork) = <<listOf(networkCode(filters.network))>>

\* a lower-case code was encoded together with a free-text location
C4_Witness ==
  /\ pc = "encoded"
  /\ filters.network = <<"s">>
  /\ filters.location = sanFrancisco
  /\ param(kNetwork) = <<listOf(<<"S">>)>>

\* C5: the filters {keywords: "software engineer"} yield a URL that contains
\* the text keywords=software%20engineer and the default location code, and
\* no network parameter.
C5_Scenario ==
  (pc = "encoded" /\ filters = [keywords |-> softwareEngineer, location |-> Undefined,
                                network |-> Undefined]) =>
     /\ includes(target, <<"k","e","y","w","o","r","d","s","=","s","o","f","t","w","a","r","e","%","2","0","e","n","g","i","n","e","e","r">>)
     /\ includes(target, <<"1","0","4","1","9","5","3","8","3">>)
     /\ param(kNetwork) = <<>>

(***************************************************************************)
(* Claims about the pipelines (checked under Spec)                         *)
(***************************************************************************)
\* an element with some link candidate whose href holds the /in/ segment
hasProfileLink(el) ==
  \E i \in 1..Len(el.links) :
     el.links[i] \notin {Undefined, Throws} /\ includes(el.links[i], inPath)

Succeeded == result.kind = "success"

\* C7: an element from which no profile URL can be extracted contributes no
\* record, and no record of a search output has a null, empty or placeholder
\* profile URL: every profileUrl is the cleaned href of a profile link of
\* one of the enumerated elements.
C7_NoRecordWithoutUrl ==
  Succeeded =>
    /\ Len(result.profiles) <=
         Cardinality({j \in 1..Len(profileElements) : hasProfileLink(profileElements[j])})
    /\ result.count = Len(result.profiles)
    /\ \A r \in 1..Len(result.profiles) :
         LET url == result.profiles[r].profileUrl
         IN /\ url # Undefined
            /\ url # <<>>
            /\ \E j \in 1..Len(profileElements) :
                 \E i \in 1..Len(profileElements[j].links) :
                    /\ profileElements[j].links[i] \notin {Undefined, Throws}
                    /\ includes(profileElements[j].links[i], inPath)
                    /\ url = cleanProfileUrl(profileElements[j].links[i])

\* two elements were enumerated, the one without a profile link was skipped
C7_Witness ==
  /\ Succeeded
  /\ Len(profileElements) = 2
  /\ ~hasProfileLink(profileElements[1])
  /\ hasProfileLink(profileElements[2])
  /\ Len(result.profiles) = 1

\* extraction is about to start or has produced the response
Extracting == pc = "extract" \/ result.kind \in {"success", "profile"}

\* C8: when a login wall is detected, exactly one login attempt occurs, then
\* exactly one re-navigation to the URL navigated to first, and extraction
\* starts only after it; without a login wall there is no login attempt and
\* no second navigation.  For a search the URL is the encoded search URL.
C8_LoginThenRenavigate ==
  /\ loginCalls <= 1
  /\ ~loginRequired => (loginCalls = 0 /\ Len(navs) <= 1)
  /\ (tool = "search-linkedin-people" /\ navs # <<>>) =>
        (navs[1] = buildSearchUrl(filters).url /\ target = navs[1])
  /\ Extracting =>
        IF loginRequired
        THEN loginCalls = 1 /\ loginSuccess = "true" /\ navs = <<target, loginUrl, target>>
        ELSE loginCalls = 0 /\ navs = <<target>>

\* a search met the login wall, logged in, navigated again and extracted
C8_Witness ==
  /\ Succeeded
  /\ loginRequired
  /\ loginCalls = 1
  /\ navs = <<target, loginUrl, target>>
  /\ Len(result.profiles) > 0

\* the login attempt of the current call ended in a challenge or in failure
LoginFailed ==
  \/ "security challenge" \in log
  \/ "login failed" \in log
  \/ "error during login" \in log

C10_Original ==
  /\ loginSuccess = "true" => snapshot = cookies
  /\ ("session cookies saved" \in log) => loginSuccess = "true"

\* what the console of the current call says about saving the snapshot
SaveLogConsistent ==
  /\ ("login successful" \in log) =>
        (/\ loginSuccess = "true"
         /\ ("session cookies saved" \in log) # ("error saving cookies" \in log))
  /\ ("session cookies saved" \in log) =>
        ("login successful" \in log /\ snapshot = cookies)
  /\ ("already logged in" \in log) =>
        (/\ loginSuccess = "true"
         /\ "session cookies saved" \notin log
         /\ "error saving cookies" \notin log)
  /\ ("error saving cookies" \in log) => ("login successful" \in log)

\* C10 (amended): a login that submitted the credentials and is reported as
\* successful calls saveCookies before the operation continues, which
\* overwrites the snapshot with the current cookies unless saving throws
\* (logged and swallowed, the login still succeeds); a login reported as
\* successful because the session was already authenticated writes nothing;
\* the snapshot is never written by a login that was not successful.
C10_SnapshotOnLogin ==
  /\ []SaveLogConsistent
  /\ [][snapshot' # snapshot => (pc = "login" /\ loginSuccess' = "true"
                                  /\ "session cookies saved" \in log')]_vars

\* a login with credentials replaced an older snapshot by the new cookies
C10_Witness ==
  /\ "login successful" \in log
  /\ "session cookies saved" \in log
  /\ pc = "renavigate"
  /\ cookies = 1
  /\ snapshot = cookies

(***************************************************************************)
(* Claims about container location, selector chains and error handling     *)
(***************************************************************************)
\* the search of the current call has read a page
SearchRead ==
  tool = "search-linkedin-people" /\ pc = "done" /\ pageContent # NoContent

\* no row selector matches any element of the page read
NoRowMatches ==
  \A i \in 1..Len(pageContent.rows) : pageContent.rows[i] = <<>>

\* C11: when a results container is found but no row selector matches any
\* element, the search returns a success result with count 0 and an empty
\* record list, not an error.
C11_EmptyRowsIsSuccess ==
  (SearchRead /\ pageContent.containers # {} /\ NoRowMatches) =>
     /\ result.kind = "success"
     /\ result.count = 0
     /\ result.profiles = <<>>

\* a search found the third container candidate and no rows
C11_Witness ==
  /\ SearchRead
  /\ pageContent.containers = {3}
  /\ NoRowMatches
  /\ result.kind = "success"
  /\ "no profile elements" \in log

\* only the n-th candidate of a chain matches
OnlyNth(cands, n) ==
  /\ cands[n] # Undefined
  /\ \A i \in (1..Len(cands)) \ {n} : cands[i] = Undefined

\* C12: a selector chain in which only the n-th candidate matches returns the
\* value that the chain made of that candidate alone returns, for the profile
\* URL chain, the name chain and the headline chain and for every n.
C12_OnlyNthEqualsSingleton ==
  pc = "chained" =>
    LET el == profileElements[1]
    IN /\ \A n \in 1..Len(el.links) :
            OnlyNth(el.links, n) =>
               result.profileUrl = extractProfileUrl([el EXCEPT !.links = <<el.links[n]>>])
       /\ \A n \in 1..Len(el.names) :
            OnlyNth(el.names, n) =>
               result.name = extractProfileName([el EXCEPT !.names = <<el.names[n]>>], 0)
       /\ \A n \in 1..Len(el.headlines) :
            OnlyNth(el.headlines, n) =>
               result.headline = extractProfileHeadline([el EXCEPT !.headlines = <<el.headlines[n]>>])

\* only the last link candidate matched and its cleaned href was returned
C12_Witness ==
  /\ pc = "chained"
  /\ OnlyNth(profileElements[1].links, 4)
  /\ profileElements[1].links[4] = <<"/","i","n","/","a","?","t","=","1">>
  /\ result.profileUrl = <<"h","t","t","p","s",":","/","/","w","w","w",".","l","i","n","k","e","d","i","n",".","c","o","m","/","i","n","/","a">>

\* C13: a selector chain never throws: a candidate whose query raises is
\* treated as no match and the chain goes on, so every enumerated element
\* with a profile link yields a record, whatever queries raise on it, and
\* the search does not fail.
C13_ChainNeverThrows ==
  SearchRead =>
    /\ result.kind = "success"
    /\ Len(result.profiles) =
         Cardinality({j \in 1..Len(profileElements) : hasProfileLink(profileElements[j])})

\* the current call is a profile fetch without a profile URL
MissingProfileUrl ==
  tool = "scrape-linkedin-profile" /\ (profileUrl = Undefined \/ profileUrl = <<>>)

\* a missing profile URL is answered with InvalidParams and nothing else is done
RejectedAsInvalidParams ==
  MissingProfileUrl =>
     /\ pc = "done"
     /\ result.kind = "error"
     /\ result.code = "InvalidParams"
     /\ navs = <<>>
     /\ loginCalls = 0
     /\ pageContent = NoContent

\* every other error of a search or profile fetch has the InternalError code
OtherErrorsAreInternal ==
  (result.kind = "error" /\ ~MissingProfileUrl /\ tool # "unknown-tool") =>
     result.code = "InternalError"

\* C14: a profile fetch without a profileUrl is rejected with InvalidParams,
\* a code that no extraction or scraping failure is reported with (those are
\* InternalError), and it is rejected before the scraper is initialised and
\* before any navigation: the step that receives the request leaves the
\* scraper, the page and the cookies as they were.
C14_MissingUrlRejectedFirst ==
  /\ [](RejectedAsInvalidParams /\ OtherErrorsAreInternal)
  /\ [][(MissingProfileUrl' /\ ~MissingProfileUrl) =>
          (scraper' = scraper /\ page' = page /\ cookies' = cookies /\ navs' = <<>>)]_vars

\* the first request of the process is a profile fetch with an empty URL
C14_Witness ==
  /\ MissingProfileUrl
  /\ profileUrl = <<>>
  /\ scraper = "null"
  /\ result = McpError("InvalidParams", "profileUrl is required")

\* a search or a profile fetch has ended
OperationEnded ==
  pc = "done" /\ tool \in {"search-linkedin-people", "scrape-linkedin-profile"}

\* the response is a structured result: the record list with its count and
\* the echoed filters, or a profile record with its name and URL
StructuredResult ==
  \/ /\ result.kind = "success"
     /\ DOMAIN result = {"kind", "count", "profiles", "filters"}
     /\ result.count = Len(result.profiles)
     /\ result.filters = filters
  \/ /\ result.kind = "profile"
     /\ {"name", "profileUrl"} \subseteq DOMAIN result.profile
     /\ result.profile.profileUrl = profileUrl

\* the response is one error with a code and a message, and nothing was
\* extracted in the call
BareError(messages) ==
  /\ result.kind = "error"
  /\ DOMAIN result = {"kind", "code", "message"}
  /\ result.message \in messages
  /\ profileElements = <<>>
  /\ pageContent = NoContent

\* the messages of a ValidationError, a SessionError and a NavigationTimeout
FatalMessages ==
  {"profileUrl is required", "Failed to log in to LinkedIn", "navigation timeout"}

\* the messages of a failed initialisation of the scraper
InitFailureMessages == {"config error", "launch error", "Browser not initialized"}

\* C15 as stated: an operation ends with a structured result unless a
\* ValidationError, a SessionError or a NavigationTimeout occurred, and then
\* with one error and no partial data.
C15_Original ==
  OperationEnded => (StructuredResult \/ BareError(FatalMessages))

\* C15 (amended): an operation ends with a structured result unless a
\* ValidationError, a SessionError, a NavigationTimeout or a failure to
\* initialise the scraper occurred; in that case it ends with exactly one
\* error and no partial data.  Once the operation has read the page, nothing
\* makes it fail, and a failed login is the only source of the login error.
C15_StructuredOrFatal ==
  OperationEnded =>
     /\ StructuredResult \/ BareError(FatalMessages \cup InitFailureMessages)
     /\ pageContent # NoContent => StructuredResult
     /\ LoginFailed <=> (result.kind = "error" /\ result.message = "Failed to log in to LinkedIn")

\* a profile fetch on a page whose title cannot be read returned the basic record
C15_Witness ==
  /\ OperationEnded
  /\ tool = "scrape-linkedin-profile"
  /\ pageContent # NoContent
  /\ pageContent.titleThrows
  /\ result.kind = "profile"
  /\ result.profile = [name |-> <<"U","n","k","n","o","w","n">>, profileUrl |-> profileUrl]

\* some row selector matches elements of the page read
SomeRowMatches ==
  \E i \in 1..Len(pageContent.rows) : pageContent.rows[i] # <<>>

\* C18: when the wait for every container candidate times out, the search
\* goes on as if the container was not found: it logs the miss, enumerates
\* the rows all the same and returns a success result (empty when no row
\* selector matches either); when the load of the search or profile page
\* times out, the operation ends at once with a reported error and nothing
\* is extracted.
C18_TimeoutPolicy ==
  /\ (SearchRead /\ pageContent.containers = {}) =>
        /\ result.kind = "success"
        /\ "no search results container" \in log
        /\ SomeRowMatches => profileElements # <<>>
        /\ NoRowMatches => (result.count = 0 /\ result.profiles = <<>>)
  /\ (page = "unloaded" /\ navs # <<>>) =>
        /\ pc = "done"
        /\ result = McpError("InternalError", "navigation timeout")
        /\ navs[Len(navs)] = target
        /\ pageContent = NoContent
        /\ profileElements = <<>>

\* every container wait timed out and records were still extracted
C18_Witness ==
  /\ SearchRead
  /\ pageContent.containers = {}
  /\ "no search results container" \in log
  /\ Len(result.profiles) > 0

\* no query raises on the element
Healthy(el) ==
  /\ \A i \in 1..Len(el.links) : el.links[i] # Throws
  /\ \A i \in 1..Len(el.names) : el.names[i] # Throws
  /\ \A i \in 1..Len(el.headlines) : el.headlines[i] # Throws

\* no candidate of the chain yields a text that is not blank
NoText(cands) ==
  \A i \in 1..Len(cands) :
     cands[i] = Undefined \/ \A k \in 1..Len(cands[i]) : cands[i][k] = " "

\* the hrefs of the profile links of the element, cleaned
profileLinksOf(el) ==
  {cleanProfileUrl(el.links[i]) :
     i \in {k \in 1..Len(el.links) :
              el.links[k] \notin {Undefined, Throws} /\ includes(el.links[k], inPath)}}

\* C19: an enumerated element that has a profile link (and on which no query
\* raises) is kept in the output whatever optional field it lacks: without a
\* headline text the record's headline is absent, and without a name text
\* the record is kept under the positional default name.
C19_OptionalFieldsKeepRecord ==
  Succeeded =>
    /\ Len(result.profiles) >=
         Cardinality({j \in 1..Len(profileElements) :
                        Healthy(profileElements[j]) /\ hasProfileLink(profileElements[j])})
    /\ \A j \in 1..Len(profileElements) :
         LET el == profileElements[j]
         IN (Healthy(el) /\ hasProfileLink(el)) =>
              \E r \in 1..j :
                 /\ r <= Len(result.profiles)
                 /\ result.profiles[r].profileUrl \in profileLinksOf(el)
                 /\ NoText(el.headlines) => result.profiles[r].headline = Undefined
                 /\ NoText(el.names) =>
                      result.profiles[r].name =
                        <<"P","r","o","f","i","l","e"," ">> \o <<(<<"1", "2", "3", "4", "5", "6", "7", "8", "9">>)[j]>>
                 /\ ~NoText(el.names) => ~NoText(<<result.profiles[r].name>>)

\* the second element has a profile link but neither a name nor a headline
\* text, and became the second record
C19_Witness ==
  /\ Succeeded
  /\ Len(profileElements) = 2
  /\ Len(result.profiles) = 2
  /\ NoText(profileElements[2].names)
  /\ NoText(profileElements[2].headlines)
  /\ result.profiles[2].name = <<"P","r","o","f","i","l","e"," ","2">>
  /\ result.profiles[2].headline = Undefined

\* a profile fetch has returned a profile
ProfileReturned ==
  tool = "scrape-linkedin-profile" /\ pc = "done" /\ result.kind = "profile"

\* the texts a field chain can take from its candidates: the trimmed text of
\* a candidate whose query does not raise and whose text is not blank
UsableTexts(cands) ==
  {trim(cands[i]) :
     i \in {k \in 1..Len(cands) :
              /\ cands[k] \notin {Undefined, Throws}
              /\ \E c \in 1..Len(cands[k]) : cands[k][c] # " "}}

\* the placeholder texts
Sentinels == {<<"U","n","k","n","o","w","n">>, <<"U","n","k","n","o","w","n"," ","T","i","t","l","e">>, <<"U","n","k","n","o","w","n"," ","C","o","m","p","a","n","y">>, <<"U","n","k","n","o","w","n"," ","D","u","r","a","t","i","o","n">>}

\* an optional field: absent, or a text of the page, and absent when the
\* page has no text for it
OptionalField(value, cands) ==
  /\ value = Undefined \/ value \in UsableTexts(cands)
  /\ value \notin Sentinels
  /\ UsableTexts(cands) = {} => value = Undefined

\* the elements of a list section that the extraction enumerates
SectionRows(section) ==
  IF section.throws THEN <<>> ELSE sectionElements(section)

\* the number of elements of a section that satisfy keep
Kept(section, keep(_)) ==
  Cardinality({j \in 1..Len(SectionRows(section)) : keep(SectionRows(section)[j])})

HasExperienceId(el) == UsableTexts(el.titles) # {} \/ UsableTexts(el.companies) # {}
HasSchool(el) == UsableTexts(el.schools) # {}
HasSkillName(el) == UsableTexts(el.names) # {}
HasLicenseId(el) == UsableTexts(el.names) # {} \/ UsableTexts(el.issuers) # {}

\* C20: in a returned profile an optional field whose extraction failed is
\* absent, never a placeholder; "Unknown" texts appear only as the display
\* name and in the title, company and duration of an experience item of
\* which the title or the company was extracted; education and certification
\* items carry no placeholder; and a list element without an extractable
\* identifying field is left out of its list.
C20_AbsentNotPlaceholder ==
  ProfileReturned =>
    LET p == pageContent
        r == result.profile
    IN /\ r.profileUrl = profileUrl
       /\ r.name \in UsableTexts(p.names) \cup {<<"U","n","k","n","o","w","n">>}
       /\ IF p.titleThrows
          THEN DOMAIN r = {"name", "profileUrl"}
          ELSE /\ OptionalField(r.headline, p.headlines)
               /\ OptionalField(r.location, p.locations)
               /\ OptionalField(r.about, p.abouts)
               /\ Len(r.experience) = Kept(p.experience, HasExperienceId)
               /\ \A i \in 1..Len(r.experience) :
                    /\ r.experience[i].title # <<"U","n","k","n","o","w","n"," ","T","i","t","l","e">>
                         \/ r.experience[i].company # <<"U","n","k","n","o","w","n"," ","C","o","m","p","a","n","y">>
                    /\ r.experience[i].description \notin Sentinels
               /\ Len(r.education) = Kept(p.education, HasSchool)
               /\ \A i \in 1..Len(r.education) :
                    /\ r.education[i].school \notin Sentinels \cup {Undefined}
                    /\ r.education[i].degree \notin Sentinels
                    /\ r.education[i].years \notin Sentinels
               /\ Len(r.skills) = Kept(p.skills, HasSkillName)
               /\ \A i \in 1..Len(r.skills) : r.skills[i] \notin Sentinels \cup {Undefined}
               /\ Len(r.licenses) <= Kept(p.licenses, HasLicenseId)
               /\ \A i \in 1..Len(r.licenses) :
                    /\ r.licenses[i].name \notin Sentinels \cup {Undefined}
                    /\ r.licenses[i].issuer \notin Sentinels \cup {Undefined}
                    /\ r.licenses[i].issueDate \notin Sentinels
                    /\ r.licenses[i].expirationDate \notin Sentinels
                    /\ r.licenses[i].credentialId \notin Sentinels

\* of three experience elements the one without title and company was left
\* out, and a kept one got a placeholder company
C20_Witness ==
  /\ ProfileReturned
  /\ ~pageContent.titleThrows
  /\ Len(SectionRows(pageContent.experience)) = 3
  /\ Len(result.profile.experience) = 2
  /\ result.profile.experience[1].company = <<"U","n","k","n","o","w","n"," ","C","o","m","p","a","n","y">>
  /\ result.profile.location = <<"O","s","l","o">>
  /\ Len(result.profile.licenses) = 1

(***************************************************************************)
(* Claims about concurrent requests (checked under SpecConc)               *)
(***************************************************************************)
\* request r is between the start of its navigation and the end of its
\* extraction
OnPage(r) == pc[r] \in {"navigate", "extract"}

\* C16: operations on the one browsing session are strictly sequential: no
\* two requests are navigating or extracting on the shared page at the same
\* time, and the response of a request was read from the page that this
\* request navigated to.
C16_StrictlySequential ==
  /\ \A r1, r2 \in Requests : (r1 # r2) => ~(OnPage(r1) /\ OnPage(r2))
  /\ \A r \in Requests :
        result[r].kind \in {"success", "profile"} =>
           result[r].readFrom = [url |-> target[r], by |-> r]

(***************************************************************************)
(* Claims about termination (checked under SpecCli and LiveSpec)           *)
(***************************************************************************)
\* C17: every operation that has started eventually completes with a result
\* or an error: no step of it, the login on a security challenge included,
\* waits indefinitely.
C17_EveryOperationCompletes ==
  (pc = "init") ~> (pc = "done")

(***************************************************************************)
(* Claims about the record list, the container stage and the session       *)
(***************************************************************************)
\* C21: the profile URL is the dedup key of a search output: no two records
\* of one output have the same profileUrl, and the output holds at most one
\* record per enumerated row.
C21_UrlIsDedupKey ==
  Succeeded =>
    /\ \A r1, r2 \in 1..Len(result.profiles) :
          (r1 # r2) => result.profiles[r1].profileUrl # result.profiles[r2].profileUrl
    /\ Len(result.profiles) <= Len(profileElements)

\* C22: container location is two-stage: rows are enumerated only after a
\* results container was found, and within it; when no container candidate
\* is found, no row element is enumerated and no record is extracted.
C22_RowsOnlyInContainer ==
  (SearchRead /\ pageContent.containers = {}) =>
     /\ profileElements = <<>>
     /\ result.kind = "success" => result.profiles = <<>>

\* the URL is an authenticated-only destination
Authenticated(url) == includes(url, feedPath) \/ includes(url, inPath)

\* C23: a login is classified as successful only when the URL it read last
\* holds /feed/ or /in/; a URL that holds /challenge/ is classified as a
\* challenge and never as a success; and any other URL is classified as a
\* failure.
C23_LoginClassification ==
  observedUrl # Undefined =>
    /\ loginSuccess = "true" => Authenticated(observedUrl)
    /\ includes(observedUrl, challengePath) =>
          (loginSuccess # "true" /\ "security challenge" \in log)
    /\ (~Authenticated(observedUrl) /\ ~includes(observedUrl, challengePath)) =>
          loginSuccess = "false"

\* C24: the persisted snapshot is read only by init and written only by the
\* login of an operation that met the login wall and whose login is reported
\* as successful: every other step leaves it as it was, so an operation
\* without a login wall and an operation whose login fails end with the
\* snapshot they started with; and the cookie jar of the session is only set
\* from the snapshot by init.
C24_SnapshotFrame ==
  /\ [][snapshot' # snapshot =>
          (pc = "login" /\ loginRequired /\ loginCalls' = 1 /\ loginSuccess' = "true")]_vars
  /\ [][cookies' # cookies =>
          (pc = "login" \/ (pc = "init" /\ scraper = "null" /\ cookies' = snapshot))]_vars
  /\ []((pc = "done" /\ (~loginRequired \/ loginSuccess = "false")) =>
          "session cookies saved" \notin log)

\* the login of an operation submitted the credentials, got new cookies and
\* failed; there is still no snapshot file
C24_Witness ==
  /\ pc = "done"
  /\ loginRequired
  /\ loginSuccess = "false"
  /\ "login failed" \in log
  /\ cookies = 1
  /\ snapshot = NoFile

\* the snapshot cannot be restored: there is no file, or the file is malformed
NothingToRestore == snapshot \notin CookieJars

\* C25: init tries to restore the persisted snapshot and completes whatever
\* the snapshot is: when the browser and its page were created, a missing
\* file and a file that cannot be read, parsed or added leave the session
\* with the cookies it had, the operation goes on to its navigation without
\* an error, and the snapshot is left as it was.
C25_InitSurvivesBadSnapshot ==
  /\ [][(pc = "init" /\ scraper = "null" /\ scraper' = "ready") =>
          /\ pc' = "navigate"
          /\ result' = NoResult
          /\ cookies' = (IF NothingToRestore THEN cookies ELSE snapshot)
          /\ snapshot' = snapshot]_vars
  /\ []("error loading cookies" \in log =>
          /\ scraper = "ready"
          /\ result.kind = "error" => result.message \notin InitFailureMessages)

\* the session was initialised over a malformed snapshot, started without
\* cookies, and the search of that call returned records
C25_Witness ==
  /\ Succeeded
  /\ "error loading cookies" \in log
  /\ snapshot = Malformed
  /\ cookies = 0
  /\ Len(result.profiles) > 0

(***************************************************************************)
(* Claims about the global scraper                                         *)
(***************************************************************************)
\* C26: under every interleaving of two requests, the scraper that
\* initializeScraper returns to a request has completed init(): a request
\* that is past initializeScraper works on a scraper with a page, and no
\* request fails with 'Browser not initialized'.
C26_ReturnedScraperIsInitialised ==
  \A r \in Requests :
     /\ pc[r] \in {"navigate", "extract"} => scraper = "ready"
     /\ result[r] # McpError("InternalError", "Browser not initialized")

\* C27: when init() of the global scraper fails during a request, the global
\* scraper is not left set to the instance without a page: between requests
\* it is unset or fully initialised, so that a later request initialises
\* again, and no request fails with 'Browser not initialized'.
C27_FailedInitIsRetried ==
  /\ pc = "idle" => scraper \in {"null", "ready"}
  /\ result # McpError("InternalError", "Browser not initialized")

(***************************************************************************)
(* Claims about the search output                                          *)
(***************************************************************************)
\* C28: no search returns a success result read from a page that shows the
\* login wall: a login wall on the page reached by the re-navigation after a
\* successful login ends the search with an error, not with an empty result.
C28_NoSuccessFromWall ==
  Succeeded => page # "wall"

\* C29: the profileUrl of every record of a search output is absolute
\* (starts with http), has no query string, and holds the /in/ segment.
C29_ProfileUrlShape ==
  Succeeded =>
    \A r \in 1..Len(result.profiles) :
       LET url == result.profiles[r].profileUrl
       IN /\ startsWith(url, <<"h","t","t","p">>)
          /\ \A i \in 1..Len(url) : url[i] # "?"
          /\ includes(url, <<"/","i","n","/">>)

(***************************************************************************)
(* Claims about repeated parameters (checked under SpecEnc)                *)
(***************************************************************************)
\* C30: in the encoded search URL each of the parameter names keywords,
\* origin, geoUrn and network appears at most once; in particular the
\* origin marker is not written twice when a numeric or default location
\* and a valid network value are both present.
C30_ParameterNamesUnique ==
  pc = "encoded" =>
    \A name \in {kKeywords, kOrigin, kGeoUrn, kNetwork} : Len(param(name)) <= 1

====
